---- MODULE Spec2Model ----
(***************************************************************************)
(* seenum: the derive macros (shape validator, code generators) and the    *)
(* EnumSelect index algebra, as a state machine.                           *)
(*                                                                         *)
(* A behaviour is one declaration going through one crate's derive macros  *)
(* and then, when the generated implementation supplies what the trait's   *)
(* default methods read, through the runtime operations of the trait.      *)
(* Option<T> is a sequence: <<>> is None, <<x>> is Some(x).                *)
(***************************************************************************)
EXTENDS Integers, Sequences, FiniteSets, TLC

\* ------------------------------------------------------------------ bounds
MaxVariants == 3
MaxAttrs == 2
\* indices handed to try_from_index from outside: 0 .. COUNT + 1 at least
MaxIndex == MaxVariants + 1

\* ------------------------------------------------------------------ inputs
None == <<>>
Some(x) == <<x>>

Names == <<"A", "B", "C", "D", "E", "F">>
Crates == {"seenum", "enum_select"}

\* #[repr(usize)], #[repr(C, usize)], #[repr(u8)]: identifier lists.
\* #[repr(align(8))]: a repr whose arguments are no identifier list.
\* #[derive(Debug)]: not a repr at all (its arguments are never parsed).
ReprUsize == [path |-> "repr", parses |-> TRUE, idents |-> <<"usize">>]
ReprCUsize == [path |-> "repr", parses |-> TRUE, idents |-> <<"C", "usize">>]
ReprU8 == [path |-> "repr", parses |-> TRUE, idents |-> <<"u8">>]
ReprAlign == [path |-> "repr", parses |-> FALSE, idents |-> <<>>]
DeriveDebug == [path |-> "derive", parses |-> FALSE, idents |-> <<>>]
AttrKinds == {ReprUsize, ReprCUsize, ReprU8, ReprAlign, DeriveDebug}

\* sequences over S of length 0 .. n
SeqsUpTo(S, n) == UNION {[1..k -> S] : k \in 0..n}

AttrSeqs == SeqsUpTo(AttrKinds, MaxAttrs)

\* variant attributes: #[display("1 minute")], #[display("5 minutes")],
\* #[display] (no arguments to parse), #[doc = "..."]
Display1 == [path |-> "display", parses |-> TRUE, lit |-> "1 minute"]
Display5 == [path |-> "display", parses |-> TRUE, lit |-> "5 minutes"]
DisplayBare == [path |-> "display", parses |-> FALSE, lit |-> ""]
DocAttr == [path |-> "doc", parses |-> FALSE, lit |-> ""]
VariantAttrSeqs ==
    {<<>>, <<Display1>>, <<Display5>>, <<DocAttr>>, <<DocAttr, Display5>>,
     <<Display1, Display5>>, <<DisplayBare>>}

FieldKinds == {"Unit", "Unnamed", "Named"}
\* no explicit tag, or the explicit tag `= 2`
Discriminants == {None, Some(2)}

\* the identifier orders of a declaration with n variants
Injective(s) == \A i, j \in DOMAIN s : s[i] = s[j] => i = j
IdentOrders(n) == {s \in [1..n -> {Names[i] : i \in 1..n}] : Injective(s)}

Variant(id, f, d, a) == [ident |-> id, fields |-> f, discriminant |-> d, attrs |-> a]

DeriveInput(a, d, v) == [attrs |-> a, ident |-> "E", data |-> d, variants |-> v]

\* variants in ascending identifier order, with the given shapes
ShapedVariants(n, fs, ds) == [i \in 1..n |-> Variant(Names[i], fs[i], ds[i], <<>>)]

\* unit variants without tags, in the given identifier order
UnitVariants(n, ids) == [i \in 1..n |-> Variant(ids[i], "Unit", None, <<>>)]

\* unit variants without tags, with the given identifiers and attributes
DisplayVariants(n, ids, as) == [i \in 1..n |-> Variant(ids[i], "Unit", None, as[i])]

\* the declarations the EnumSelect derive is run on: every attribute list
\* with a struct, with an enum of every shape, and with a unit enum in every
\* identifier order
IsDeclaration(d) ==
    \E a \in AttrSeqs :
        \/ d = DeriveInput(a, "Struct", <<>>)
        \/ \E n \in 0..MaxVariants :
             \/ \E fs \in [1..n -> FieldKinds], ds \in [1..n -> Discriminants] :
                  d = DeriveInput(a, "Enum", ShapedVariants(n, fs, ds))
             \/ \E ids \in IdentOrders(n) :
                  d = DeriveInput(a, "Enum", UnitVariants(n, ids))

\* the declarations the Display derive is run on: a struct, and unit enums
\* in every identifier order with every list of variant attributes
IsDisplayDeclaration(d) ==
    \/ d = DeriveInput(<<ReprUsize>>, "Struct", <<>>)
    \/ \E n \in 0..MaxVariants :
         \E ids \in IdentOrders(n), as \in [1..n -> VariantAttrSeqs] :
            d = DeriveInput(<<ReprUsize>>, "Enum", DisplayVariants(n, ids, as))

\* ------------------------------------------------------------------ errors
\* the messages of the derive macros (without their backquotes), under the
\* names of the error kinds
MissingIndexRepresentation == "enum must have a #[repr(usize)]"
NotAnEnumeration == "EnumSelect can only be derived on enums"
EmptyEnumeration == "enum must be non-empty"
CaseHasFields == "all variants must be a unit variant"
ExplicitDiscriminant == "all variants must have the default discriminant"
MissingDisplayTemplate == "#[display(...)] attribute required for all variants"
DisplayNotAnEnumeration == "#[derive(Display)] is only supported on enums"
LegacyDisplayNotAnEnumeration == "Display is only supported on enums"
\* syn's own error for attribute arguments it cannot parse
ParseError == "syn: cannot parse attribute arguments"

\* span: "call_site" (the declaration), "attr", "fields", "discriminant",
\* "variant"; at: the attribute's or variant's position, 0 for call_site
Error(msg, span, at) == [msg |-> msg, span |-> span, at |-> at]

\* Result<UnitEnum, syn::Error>: one syn::Error is one reported error
Ok(name, variants) == [ok |-> TRUE, errors |-> <<>>, name |-> name, variants |-> variants]
Err(e) == [ok |-> FALSE, errors |-> <<e>>, name |-> "", variants |-> <<>>]

NamesUsize(attr) == \E k \in DOMAIN attr.idents : attr.idents[k] = "usize"

\* ------------------------------------------- seenum-core: validate_input
\* the loop over input.attrs: the first repr attribute whose arguments do
\* not parse returns syn's error, the first one naming usize breaks
RECURSIVE ReprLoop(_, _)
ReprLoop(attrs, i) ==
    IF i > Len(attrs) THEN [is_repr_usize |-> FALSE, err |-> None]
    ELSE IF attrs[i].path = "repr"
         THEN IF ~attrs[i].parses
              THEN [is_repr_usize |-> FALSE, err |-> Some(Error(ParseError, "attr", i))]
              ELSE IF NamesUsize(attrs[i])
                   THEN [is_repr_usize |-> TRUE, err |-> None]
                   ELSE ReprLoop(attrs, i + 1)
         ELSE ReprLoop(attrs, i + 1)

\* the closure without its check of the discriminant
VariantResult_no_tag_check(variant, i) ==
    IF variant.fields # "Unit"
    THEN Err(Error(CaseHasFields, "fields", i))
    ELSE Ok("", <<variant.ident>>)

\* the closure mapped over the variants
VariantResult(variant, i) ==
    IF variant.fields # "Unit"
    THEN Err(Error(CaseHasFields, "fields", i))
    ELSE IF variant.discriminant # None
         THEN Err(Error(ExplicitDiscriminant, "discriminant", i))
         ELSE Ok("", <<variant.ident>>)

\* .collect::<syn::Result<_>>()?: stops at the first Err
RECURSIVE CollectVariants(_, _, _)
CollectVariants(variants, i, acc) ==
    IF i > Len(variants) THEN Ok("", acc)
    ELSE LET r == VariantResult(variants[i], i)
         IN  IF ~r.ok THEN r ELSE CollectVariants(variants, i + 1, acc \o r.variants)

\* validate_input with the shape check ahead of the representation check
validate_input_shape_first(input) ==
    LET repr == ReprLoop(input.attrs, 1)
    IN  IF input.data # "Enum"
        THEN Err(Error(NotAnEnumeration, "call_site", 0))
        ELSE IF repr.err # None THEN Err(repr.err[1])
        ELSE IF ~repr.is_repr_usize
        THEN Err(Error(MissingIndexRepresentation, "call_site", 0))
        ELSE IF input.variants = <<>>
        THEN Err(Error(EmptyEnumeration, "call_site", 0))
        ELSE LET variants == CollectVariants(input.variants, 1, <<>>)
             IN  IF ~variants.ok THEN variants
                 ELSE Ok(input.ident, variants.variants)

validate_input(input) ==
    LET repr == ReprLoop(input.attrs, 1)
    IN  IF repr.err # None THEN Err(repr.err[1])
        ELSE IF ~repr.is_repr_usize
        THEN Err(Error(MissingIndexRepresentation, "call_site", 0))
        ELSE IF input.data # "Enum"
        THEN Err(Error(NotAnEnumeration, "call_site", 0))
        ELSE IF input.variants = <<>>
        THEN Err(Error(EmptyEnumeration, "call_site", 0))
        ELSE LET variants == CollectVariants(input.variants, 1, <<>>)
             IN  IF ~variants.ok THEN variants
                 ELSE Ok(input.ident, variants.variants)

\* -------------------------------------- enum-select-core: validate_input
\* input.attrs.iter().any(..): stops at the first attribute that is a repr
\* naming usize, aborts on the first repr whose arguments do not parse
RECURSIVE ReprAny(_, _)
ReprAny(attrs, i) ==
    IF i > Len(attrs) THEN [is_repr_usize |-> FALSE, err |-> None]
    ELSE IF attrs[i].path # "repr" THEN ReprAny(attrs, i + 1)
    ELSE IF ~attrs[i].parses
    THEN [is_repr_usize |-> FALSE, err |-> Some(Error(ParseError, "attr", i))]
    ELSE IF NamesUsize(attrs[i]) THEN [is_repr_usize |-> TRUE, err |-> None]
    ELSE ReprAny(attrs, i + 1)

\* the closure checking the discriminant before the fields
LegacyVariantResult_tag_first(variant, i) ==
    IF variant.discriminant # None
    THEN Err(Error(ExplicitDiscriminant, "discriminant", i))
    ELSE IF variant.fields # "Unit"
         THEN Err(Error(CaseHasFields, "fields", i))
         ELSE Ok("", <<variant.ident>>)

\* the closure mapped over the variants: abort! ends the expansion
LegacyVariantResult(variant, i) ==
    IF variant.fields # "Unit"
    THEN Err(Error(CaseHasFields, "fields", i))
    ELSE IF variant.discriminant # None
         THEN Err(Error(ExplicitDiscriminant, "discriminant", i))
         ELSE Ok("", <<variant.ident>>)

RECURSIVE LegacyCollectVariants(_, _, _)
LegacyCollectVariants(variants, i, acc) ==
    IF i > Len(variants) THEN Ok("", acc)
    ELSE LET r == LegacyVariantResult(variants[i], i)
         IN  IF ~r.ok THEN r
             ELSE LegacyCollectVariants(variants, i + 1, acc \o r.variants)

legacy_validate_input(input) ==
    LET repr == ReprAny(input.attrs, 1)
    IN  IF repr.err # None THEN Err(repr.err[1])
        ELSE IF ~repr.is_repr_usize
        THEN Err(Error(MissingIndexRepresentation, "call_site", 0))
        ELSE IF input.data # "Enum"
        THEN Err(Error(NotAnEnumeration, "call_site", 0))
        ELSE IF input.variants = <<>>
        THEN Err(Error(EmptyEnumeration, "call_site", 0))
        ELSE LET variants == LegacyCollectVariants(input.variants, 1, <<>>)
             IN  IF ~variants.ok THEN variants
                 ELSE Ok(input.ident, variants.variants)

\* ------------------------------------------------------- code generators
\* the output of a derive: the errors, or the items of the generated
\* `unsafe impl EnumSelect for name`; an item that is not emitted is None
NotDerived ==
    [done |-> FALSE, ok |-> FALSE, errors |-> <<>>, name |-> "",
     COUNT |-> None, ALL |-> None, as_slice |-> None, from_index_unchecked |-> FALSE]
CompileError(errors) ==
    [done |-> TRUE, ok |-> FALSE, errors |-> errors, name |-> "",
     COUNT |-> None, ALL |-> None, as_slice |-> None, from_index_unchecked |-> FALSE]

\* seenum-core: the impl holds ALL and from_index_unchecked
derive_impl(input) ==
    LET unit_enum == validate_input(input)
    IN  IF ~unit_enum.ok THEN CompileError(unit_enum.errors)
        ELSE [done |-> TRUE, ok |-> TRUE, errors |-> <<>>, name |-> unit_enum.name,
              COUNT |-> None,
              ALL |-> Some(unit_enum.variants),
              as_slice |-> None,
              from_index_unchecked |-> TRUE]

\* enum-select-core: the impl holds COUNT, from_index_unchecked and as_slice
derive_enum_select(input) ==
    LET unit_enum == legacy_validate_input(input)
    IN  IF ~unit_enum.ok THEN CompileError(unit_enum.errors)
        ELSE [done |-> TRUE, ok |-> TRUE, errors |-> <<>>, name |-> unit_enum.name,
              COUNT |-> Some(Len(unit_enum.variants)),
              ALL |-> None,
              as_slice |-> Some(unit_enum.variants),
              from_index_unchecked |-> TRUE]

\* ------------------------------------------------------- derive(Display)
DisplayNotDerived == [done |-> FALSE, ok |-> FALSE, errors |-> <<>>, name |-> "", arms |-> <<>>]
DisplayError(e) == [done |-> TRUE, ok |-> FALSE, errors |-> <<e>>, name |-> "", arms |-> <<>>]
DisplayImpl(name, arms) == [done |-> TRUE, ok |-> TRUE, errors |-> <<>>, name |-> name, arms |-> arms]

\* attrs.iter().find(|attr| attr.path().is_ident("display"))
RECURSIVE FindDisplay(_, _)
FindDisplay(attrs, k) ==
    IF k > Len(attrs) THEN None
    ELSE IF attrs[k].path = "display" THEN Some(attrs[k])
    ELSE FindDisplay(attrs, k + 1)

\* the closure passing over a variant that has no display attribute
PairResult_skip_missing(variant, i) ==
    LET display_attr == FindDisplay(variant.attrs, 1)
    IN  IF display_attr = None
        THEN [ok |-> TRUE, err |-> Error("", "", 0), pair |-> <<>>]
        ELSE IF ~display_attr[1].parses
        THEN [ok |-> FALSE, err |-> Error(ParseError, "attr", i), pair |-> None]
        ELSE [ok |-> TRUE, err |-> Error("", "", 0),
              pair |-> Some([name |-> variant.ident, inner |-> [lit |-> display_attr[1].lit]])]

\* seenum-core: the closure mapped over the variants, Some(pair) or an error
PairResult(variant, i) ==
    LET display_attr == FindDisplay(variant.attrs, 1)
    IN  IF display_attr = None
        THEN [ok |-> FALSE, err |-> Error(MissingDisplayTemplate, "variant", i), pair |-> None]
        ELSE IF ~display_attr[1].parses
        THEN [ok |-> FALSE, err |-> Error(ParseError, "attr", i), pair |-> None]
        ELSE [ok |-> TRUE, err |-> Error("", "", 0),
              pair |-> Some([name |-> variant.ident, inner |-> [lit |-> display_attr[1].lit]])]

RECURSIVE CollectPairs(_, _, _)
CollectPairs(variants, i, acc) ==
    IF i > Len(variants) THEN DisplayImpl("", acc)
    ELSE LET r == PairResult(variants[i], i)
         IN  IF ~r.ok THEN DisplayError(r.err)
             ELSE CollectPairs(variants, i + 1, acc \o r.pair)

display_derive_impl(input) ==
    IF input.data # "Enum"
    THEN DisplayError(Error(DisplayNotAnEnumeration, "call_site", 0))
    ELSE LET pairs == CollectPairs(input.variants, 1, <<>>)
         IN  IF ~pairs.ok THEN pairs ELSE DisplayImpl(input.ident, pairs.arms)

\* enum-select-core: the same closure, with abort! for the missing attribute
LegacyPairResult(variant, i) ==
    LET display_attr == FindDisplay(variant.attrs, 1)
    IN  IF display_attr = None
        THEN [ok |-> FALSE, err |-> Error(MissingDisplayTemplate, "variant", i), pair |-> None]
        ELSE IF ~display_attr[1].parses
        THEN [ok |-> FALSE, err |-> Error(ParseError, "attr", i), pair |-> None]
        ELSE [ok |-> TRUE, err |-> Error("", "", 0),
              pair |-> Some([name |-> variant.ident, inner |-> [lit |-> display_attr[1].lit]])]

RECURSIVE LegacyCollectPairs(_, _, _)
LegacyCollectPairs(variants, i, acc) ==
    IF i > Len(variants) THEN DisplayImpl("", acc)
    ELSE LET r == LegacyPairResult(variants[i], i)
         IN  IF ~r.ok THEN DisplayError(r.err)
             ELSE LegacyCollectPairs(variants, i + 1, acc \o r.pair)

derive_display(input) ==
    IF input.data # "Enum"
    THEN DisplayError(Error(LegacyDisplayNotAnEnumeration, "call_site", 0))
    ELSE LET pairs == LegacyCollectPairs(input.variants, 1, <<>>)
         IN  IF ~pairs.ok THEN pairs ELSE DisplayImpl(input.ident, pairs.arms)

\* ::core::write!(f, #inner) with a string literal: its text
write(inner) == inner.lit

NoArm == "(no arm)"

\* a fmt whose every arm writes the first template
fmt_first_template(arms, self) ==
    LET hits == {k \in DOMAIN arms : arms[k].name = self}
    IN  IF hits = {} THEN NoArm ELSE write(arms[1].inner)

\* the generated fmt: `match self` takes the first arm naming self
fmt(arms, self) ==
    LET hits == {k \in DOMAIN arms : arms[k].name = self}
    IN  IF hits = {} THEN NoArm
        ELSE write(arms[CHOOSE k \in hits : \A m \in hits : k <= m].inner)

\* the ordered case listing of a generated impl, under either name
Listing(impl) ==
    IF impl.ALL # None THEN impl.ALL[1]
    ELSE IF impl.as_slice # None THEN impl.as_slice[1] ELSE <<>>

\* ------------------------------------------------------------------ state
VARIABLES
    decl,       \* the declaration the derives are applied to
    crate,      \* whose derive macros: "seenum" or "enum_select"
    select,     \* what #[derive(EnumSelect)] produced
    display,    \* what #[derive(Display)] produced
    cur,        \* the instance the program holds ("" before it has one)
    op,         \* the last runtime operation
    arg,        \* its receiver (self), "" for an associated function
    argIdx,     \* its index argument
    retSelf,    \* its result when it returns Self or String
    retOpt,     \* its result when it returns Option<Self>
    retIdx,     \* its result when it returns usize
    calls,      \* the indices it passed to from_index_unchecked
    tried,      \* the indices it computed and passed to try_from_index
    panicked,   \* an expect failed
    ub          \* an instance outside the enum's variants was produced

vars == <<decl, crate, select, display, cur, op, arg, argIdx, retSelf, retOpt,
          retIdx, calls, tried, panicked, ub>>
runtime == <<cur, op, arg, argIdx, retSelf, retOpt, retIdx, calls, tried, panicked,
             ub>>

\* ------------------------------------------------ the enum's representation
\* the tag of the i-th variant: its explicit discriminant, else one more
\* than the previous variant's, else zero
RECURSIVE Discriminant(_, _)
Discriminant(variants, i) ==
    IF variants[i].discriminant # None THEN variants[i].discriminant[1]
    ELSE IF i = 1 THEN 0
    ELSE Discriminant(variants, i - 1) + 1

Idents == {decl.variants[i].ident : i \in DOMAIN decl.variants}
Invalid == "(invalid)"

\* ------------------------------------------------- EnumSelect (the trait)
COUNT == select.COUNT[1]

\* an outcome of a call: the value returned, the indices passed to
\* from_index_unchecked and to try_from_index on the way, whether it panicked
Outcome(self, opt, c, p) ==
    [self |-> self, opt |-> opt, calls |-> c, tried |-> {}, panicked |-> p]

\* transmute(index): the variant whose tag is index; with no such variant
\* the value is undefined
from_index_unchecked(index) ==
    LET hit == {decl.variants[i].ident :
                    i \in {j \in DOMAIN decl.variants :
                              Discriminant(decl.variants, j) = index}}
    IN  IF hit # {} THEN hit ELSE Idents \cup {Invalid}

\* try_from_index with an inclusive upper bound
try_from_index_inclusive(index) ==
    IF 0 <= index /\ index <= COUNT
    THEN {[Outcome("", Some(v), {index}, FALSE) EXCEPT !.tried = {index}] :
              v \in from_index_unchecked(index)}
    ELSE {[Outcome("", None, {}, FALSE) EXCEPT !.tried = {index}]}

try_from_index(index) ==
    IF 0 <= index /\ index < COUNT
    THEN {[Outcome("", Some(v), {index}, FALSE) EXCEPT !.tried = {index}] :
              v \in from_index_unchecked(index)}
    ELSE {[Outcome("", None, {}, FALSE) EXCEPT !.tried = {index}]}

\* to_index counting the variants from one
to_index_from_one(self) ==
    LET i == CHOOSE j \in DOMAIN decl.variants : decl.variants[j].ident = self
    IN  Discriminant(decl.variants, i) + 1

\* *(self as *const Self as *const usize): the tag, read as usize
to_index(self) ==
    LET i == CHOOSE j \in DOMAIN decl.variants : decl.variants[j].ident = self
    IN  Discriminant(decl.variants, i)

\* Option::expect over the outcomes of a call
expect(outs) ==
    {IF o.opt # None THEN [o EXCEPT !.self = o.opt[1], !.opt = None]
                     ELSE [o EXCEPT !.self = "", !.opt = None, !.panicked = TRUE]
        : o \in outs}

\* Some(..) around the outcomes of a call that returns Self
SomeOf(outs) ==
    {IF o.panicked THEN o ELSE [o EXCEPT !.self = "", !.opt = Some(o.self)] : o \in outs}

\* Option::unwrap_or_else(f) over the outcomes of a call
unwrap_or_else(outs, f) ==
    UNION {IF o.panicked THEN {o}
           ELSE IF o.opt # None THEN {[o EXCEPT !.self = o.opt[1], !.opt = None]}
           ELSE {[g EXCEPT !.opt = None, !.calls = o.calls \cup g.calls,
                           !.tried = o.tried \cup g.tried] : g \in f}
           : o \in outs}

first == expect(try_from_index(0))

last == expect(try_from_index(COUNT - 1))

\* wrapping_next without the reduction modulo COUNT
wrapping_next_no_modulo(self) == expect(try_from_index(to_index(self) + 1))

wrapping_next(self) == expect(try_from_index((to_index(self) + 1) % COUNT))

wrapping_prev(self) == expect(try_from_index((to_index(self) + COUNT - 1) % COUNT))

\* checked_next taking COUNT, not COUNT - 1, for the last index
checked_next_past_last(self) ==
    IF to_index(self) = COUNT
    THEN {Outcome("", None, {}, FALSE)}
    ELSE SomeOf(expect(try_from_index(to_index(self) + 1)))

checked_next(self) ==
    IF to_index(self) = COUNT - 1
    THEN {Outcome("", None, {}, FALSE)}
    ELSE SomeOf(expect(try_from_index(to_index(self) + 1)))

\* checked_prev subtracting without the test for index zero
checked_prev_unguarded(self) == SomeOf(expect(try_from_index(to_index(self) - 1)))

checked_prev(self) ==
    IF to_index(self) = 0
    THEN {Outcome("", None, {}, FALSE)}
    ELSE SomeOf(expect(try_from_index(to_index(self) - 1)))

\* saturating_next falling back to the first variant
saturating_next_to_first(self) == unwrap_or_else(checked_next(self), first)

saturating_next(self) == unwrap_or_else(checked_next(self), last)

saturating_prev(self) == unwrap_or_else(checked_prev(self), first)

\* ---------------------------------------------------------------- actions
Start ==
    /\ crate \in Crates
    /\ select = NotDerived
    /\ display = DisplayNotDerived
    /\ cur = ""
    /\ op = "none"
    /\ arg = ""
    /\ argIdx = 0
    /\ retSelf = ""
    /\ retOpt = None
    /\ retIdx = 0
    /\ calls = {}
    /\ tried = {}
    /\ panicked = FALSE
    /\ ub = FALSE

Init == IsDeclaration(decl) /\ Start

InitDisplay == IsDisplayDeclaration(decl) /\ Start

\* #[derive(EnumSelect)] of the seenum crate
SeenumDerive ==
    /\ crate = "seenum"
    /\ ~select.done
    /\ select' = derive_impl(decl)
    /\ UNCHANGED <<decl, crate, display, runtime>>

\* #[derive(EnumSelect)] of the enum_select crate
EnumSelectDerive ==
    /\ crate = "enum_select"
    /\ ~select.done
    /\ select' = derive_enum_select(decl)
    /\ UNCHANGED <<decl, crate, display, runtime>>

\* the program runs: the impl was generated and holds the items the default
\* methods of the trait read (Self::COUNT, from_index_unchecked)
Runs ==
    /\ select.ok
    /\ select.COUNT # None
    /\ select.from_index_unchecked
    /\ ~panicked
    /\ ~ub

\* the state after a call with outcome o
Returned(name, self, index, o) ==
    LET value == IF o.opt # None THEN o.opt[1] ELSE o.self
    IN  /\ op' = name
        /\ arg' = self
        /\ argIdx' = index
        /\ retSelf' = o.self
        /\ retOpt' = o.opt
        /\ retIdx' = 0
        /\ calls' = o.calls
        /\ tried' = o.tried
        /\ panicked' = o.panicked
        /\ ub' = (value = Invalid)
        /\ cur' = IF value = "" THEN cur ELSE value
        /\ UNCHANGED <<decl, crate, select, display>>

\* a variant written in the program text: E::A
Literal ==
    /\ Runs
    /\ \E c \in Idents : Returned("literal", "", 0, Outcome(c, None, {}, FALSE))

TryFromIndex ==
    /\ Runs
    /\ \E index \in 0..MaxIndex :
         \E o \in try_from_index(index) : Returned("try_from_index", cur, index, o)

ToIndex ==
    /\ Runs
    /\ cur # ""
    /\ op' = "to_index"
    /\ arg' = cur
    /\ retIdx' = to_index(cur)
    /\ argIdx' = 0
    /\ retSelf' = ""
    /\ retOpt' = None
    /\ calls' = {}
    /\ tried' = {}
    /\ UNCHANGED <<decl, crate, select, display, cur, panicked, ub>>

First == Runs /\ \E o \in first : Returned("first", "", 0, o)

Last == Runs /\ \E o \in last : Returned("last", "", 0, o)

WrappingNext ==
    Runs /\ cur # "" /\ \E o \in wrapping_next(cur) : Returned("wrapping_next", cur, 0, o)

WrappingPrev ==
    Runs /\ cur # "" /\ \E o \in wrapping_prev(cur) : Returned("wrapping_prev", cur, 0, o)

CheckedNext ==
    Runs /\ cur # "" /\ \E o \in checked_next(cur) : Returned("checked_next", cur, 0, o)

CheckedPrev ==
    Runs /\ cur # "" /\ \E o \in checked_prev(cur) : Returned("checked_prev", cur, 0, o)

SaturatingNext ==
    Runs /\ cur # "" /\ \E o \in saturating_next(cur) : Returned("saturating_next", cur, 0, o)

SaturatingPrev ==
    Runs /\ cur # "" /\ \E o \in saturating_prev(cur) : Returned("saturating_prev", cur, 0, o)

\* #[derive(Display)] of the seenum crate
SeenumDeriveDisplay ==
    /\ crate = "seenum"
    /\ ~display.done
    /\ display' = display_derive_impl(decl)
    /\ UNCHANGED <<decl, crate, select, runtime>>

\* #[derive(Display)] of the enum_select crate
EnumSelectDeriveDisplay ==
    /\ crate = "enum_select"
    /\ ~display.done
    /\ display' = derive_display(decl)
    /\ UNCHANGED <<decl, crate, select, runtime>>

\* as_slice().iter().map(ToString::to_string): one element of the listing
\* rendered (argIdx is its position)
Render ==
    /\ Runs
    /\ display.ok
    /\ \E i \in DOMAIN Listing(select) :
         /\ op' = "to_string"
         /\ arg' = Listing(select)[i]
         /\ argIdx' = i - 1
         /\ retSelf' = fmt(display.arms, Listing(select)[i])
         /\ cur' = Listing(select)[i]
    /\ retOpt' = None
    /\ retIdx' = 0
    /\ calls' = {}
    /\ tried' = {}
    /\ UNCHANGED <<decl, crate, select, display, panicked, ub>>

Next ==
    \/ SeenumDerive
    \/ EnumSelectDerive
    \/ Literal
    \/ TryFromIndex
    \/ ToIndex
    \/ First
    \/ Last
    \/ WrappingNext
    \/ WrappingPrev
    \/ CheckedNext
    \/ CheckedPrev
    \/ SaturatingNext
    \/ SaturatingPrev

NextDisplay ==
    \/ SeenumDerive
    \/ EnumSelectDerive
    \/ SeenumDeriveDisplay
    \/ EnumSelectDeriveDisplay
    \/ Render

Spec == Init /\ [][Next]_vars

SpecDisplay == InitDisplay /\ [][NextDisplay]_vars

\* ------------------------------------------------------------- properties
\* the generated impl exists and defines COUNT
HasImpl == select.ok /\ select.COUNT # None
\* the case at position p (from zero) of the ordered case listing
CaseAt(p) == Listing(select)[p + 1]
\* the position (from zero) of a listed case
Position(c) == (CHOOSE i \in DOMAIN Listing(select) : Listing(select)[i] = c) - 1
Min(a, b) == IF a <= b THEN a ELSE b
Max(a, b) == IF a >= b THEN a ELSE b

\* C1: to_index and try_from_index are mutually inverse on 0..COUNT:
\* try_from_index(to_index(c)) is Some(c) for every case c, and
\* to_index(try_from_index(p).unwrap()) is p for every p below COUNT, so the
\* positions 0..COUNT-1 and the cases correspond one to one.
C1_RoundTrip ==
    HasImpl =>
        /\ \A c \in Idents : \A o \in try_from_index(to_index(c)) : o.opt = Some(c)
        /\ \A p \in 0..(COUNT - 1) :
              \A o \in try_from_index(p) :
                 /\ o.opt # None
                 /\ o.opt[1] \in Idents
                 /\ to_index(o.opt[1]) = p
        /\ Cardinality(Idents) = COUNT
        /\ (op = "try_from_index" /\ arg # "" /\ argIdx = to_index(arg))
              => retOpt = Some(arg)
        /\ (op = "try_from_index" /\ argIdx < COUNT)
              => /\ retOpt # None
                 /\ retOpt[1] \in Idents
                 /\ to_index(retOpt[1]) = argIdx

\* try_from_index was called with the index of the held instance, the last
\* of three cases declared in an order that is not the alphabetical one
C1_Witness ==
    /\ HasImpl
    /\ op = "try_from_index"
    /\ arg = "A"
    /\ COUNT = 3
    /\ argIdx = 2
    /\ to_index(arg) = 2
    /\ retOpt = Some("A")

\* C2: try_from_index(p) is Some(the case at position p) exactly when
\* p < COUNT, and None for p = COUNT and every larger p, without panicking
\* and without calling from_index_unchecked.
C2_TryFromIndexGuards ==
    (HasImpl /\ op = "try_from_index") =>
        /\ ~panicked
        /\ ~ub
        /\ argIdx < COUNT => (retOpt = Some(CaseAt(argIdx)) /\ calls = {argIdx})
        /\ argIdx >= COUNT => (retOpt = None /\ calls = {})
        /\ retOpt # None <=> argIdx < COUNT

\* try_from_index(COUNT) returned None
C2_Witness ==
    /\ HasImpl
    /\ op = "try_from_index"
    /\ argIdx = COUNT
    /\ COUNT >= 2
    /\ retOpt = None
    /\ calls = {}

\* C3: for a valid declaration with N cases the generated impl defines
\* COUNT = N, non-zero, and an ordered listing (ALL, or as_slice) of length
\* N whose i-th element is the i-th declared case, with index i.
C3_GeneratedCountAndListing ==
    select.ok =>
        /\ select.COUNT = Some(Len(decl.variants))
        /\ Len(decl.variants) # 0
        /\ Len(Listing(select)) = Len(decl.variants)
        /\ \A i \in DOMAIN Listing(select) :
              /\ Listing(select)[i] = decl.variants[i].ident
              /\ to_index(Listing(select)[i]) = i - 1

\* C4: wrapping_next(c) is the case at (i + 1) mod COUNT and
\* wrapping_prev(c) the case at (i + COUNT - 1) mod COUNT, for c at index
\* i; so the last case wraps to the first and the first to the last, and
\* neither panics.
C4_Wrapping ==
    /\ (HasImpl /\ op = "wrapping_next") =>
          /\ ~panicked
          /\ ~ub
          /\ retSelf = CaseAt((Position(arg) + 1) % COUNT)
          /\ Position(arg) = COUNT - 1 => retSelf = CaseAt(0)
    /\ (HasImpl /\ op = "wrapping_prev") =>
          /\ ~panicked
          /\ ~ub
          /\ retSelf = CaseAt((Position(arg) + COUNT - 1) % COUNT)
          /\ Position(arg) = 0 => retSelf = CaseAt(COUNT - 1)

\* wrapping_prev of the first of three cases returned the last one
C4_Witness ==
    /\ HasImpl
    /\ op = "wrapping_prev"
    /\ COUNT = 3
    /\ arg = CaseAt(0)
    /\ retSelf = CaseAt(2)

\* C5: checked_next(c) is None exactly when c is the last case and
\* otherwise Some(the case at index + 1); checked_prev(c) is None exactly
\* when c is the first case and otherwise Some(the case at index - 1).
C5_Checked ==
    /\ (HasImpl /\ op = "checked_next") =>
          /\ ~panicked
          /\ ~ub
          /\ retOpt = None <=> Position(arg) = COUNT - 1
          /\ Position(arg) # COUNT - 1 => retOpt = Some(CaseAt(Position(arg) + 1))
    /\ (HasImpl /\ op = "checked_prev") =>
          /\ ~panicked
          /\ ~ub
          /\ retOpt = None <=> Position(arg) = 0
          /\ Position(arg) # 0 => retOpt = Some(CaseAt(Position(arg) - 1))

\* checked_next of the last of three cases returned None
C5_Witness ==
    /\ HasImpl
    /\ op = "checked_next"
    /\ COUNT = 3
    /\ arg = CaseAt(2)
    /\ retOpt = None

\* the outcomes of saturating_next applied k times from c
RECURSIVE RepeatedSaturatingNext(_, _)
RepeatedSaturatingNext(c, k) ==
    IF k = 0 THEN {c}
    ELSE UNION {IF o.panicked \/ o.self \notin Idents THEN {Invalid}
                ELSE RepeatedSaturatingNext(o.self, k - 1) : o \in saturating_next(c)}

\* the outcomes of saturating_prev applied k times from c
RECURSIVE RepeatedSaturatingPrev(_, _)
RepeatedSaturatingPrev(c, k) ==
    IF k = 0 THEN {c}
    ELSE UNION {IF o.panicked \/ o.self \notin Idents THEN {Invalid}
                ELSE RepeatedSaturatingPrev(o.self, k - 1) : o \in saturating_prev(c)}

\* C6: saturating_next(c) is the value inside checked_next(c) when that
\* is Some, and c itself, the last case, otherwise; saturating_prev(c) is
\* the value inside checked_prev(c) when that is Some, and c itself, the
\* first case, otherwise. Applied repeatedly from any case (COUNT - 1
\* times, and once more), saturating_next reaches the last case and stays
\* there, saturating_prev the first.
C6_Saturating ==
    /\ (HasImpl /\ op = "saturating_next") =>
          /\ ~panicked
          /\ ~ub
          /\ \A o \in checked_next(arg) :
                IF o.opt # None THEN retSelf = o.opt[1]
                ELSE retSelf = arg /\ arg = CaseAt(COUNT - 1)
          /\ Position(retSelf) = Min(Position(arg) + 1, COUNT - 1)
          /\ RepeatedSaturatingNext(arg, COUNT - 1) = {CaseAt(COUNT - 1)}
          /\ RepeatedSaturatingNext(arg, COUNT) = {CaseAt(COUNT - 1)}
    /\ (HasImpl /\ op = "saturating_prev") =>
          /\ ~panicked
          /\ ~ub
          /\ \A o \in checked_prev(arg) :
                IF o.opt # None THEN retSelf = o.opt[1]
                ELSE retSelf = arg /\ arg = CaseAt(0)
          /\ Position(retSelf) = Max(Position(arg) - 1, 0)
          /\ RepeatedSaturatingPrev(arg, COUNT - 1) = {CaseAt(0)}
          /\ RepeatedSaturatingPrev(arg, COUNT) = {CaseAt(0)}

\* saturating_next of the last of three cases returned that case
C6_Witness ==
    /\ HasImpl
    /\ op = "saturating_next"
    /\ COUNT = 3
    /\ arg = CaseAt(2)
    /\ retSelf = arg

\* what a declaration is, read off the declaration alone
ReprNamingUsize(a) == a.path = "repr" /\ a.parses /\ NamesUsize(a)
HasReprUsize == \E i \in DOMAIN decl.attrs : ReprNamingUsize(decl.attrs[i])
UnparsedRepr(a) == a.path = "repr" /\ ~a.parses
\* a repr with unparseable arguments stands before every repr naming usize
UnparsedReprFirst ==
    \E i \in DOMAIN decl.attrs :
        /\ UnparsedRepr(decl.attrs[i])
        /\ \A j \in 1..(i - 1) : ~ReprNamingUsize(decl.attrs[j])
FirstUnparsedRepr ==
    CHOOSE i \in DOMAIN decl.attrs :
        /\ UnparsedRepr(decl.attrs[i])
        /\ \A j \in 1..(i - 1) : ~UnparsedRepr(decl.attrs[j])
IsEnum == decl.data = "Enum"
HasFields(i) == decl.variants[i].fields # "Unit"
HasTag(i) == decl.variants[i].discriminant # None
OffendingCases == {i \in DOMAIN decl.variants : HasFields(i) \/ HasTag(i)}
FirstOffendingCase == CHOOSE i \in OffendingCases : \A j \in OffendingCases : i <= j
DeclaredNames == [i \in DOMAIN decl.variants |-> decl.variants[i].ident]
\* the error kinds of the invariants the declaration violates
Violations ==
    (IF ~HasReprUsize THEN {MissingIndexRepresentation} ELSE {})
    \cup (IF IsEnum /\ decl.variants = <<>> THEN {EmptyEnumeration} ELSE {})
    \cup (IF \E i \in DOMAIN decl.variants : HasFields(i) THEN {CaseHasFields} ELSE {})
    \cup (IF \E i \in DOMAIN decl.variants : HasTag(i) THEN {ExplicitDiscriminant} ELSE {})
\* a validated model is returned only for a valid declaration, and holds
\* the declared case names in declaration order
AcceptedOnlyIfValid ==
    select.ok =>
        /\ HasReprUsize
        /\ IsEnum
        /\ decl.variants # <<>>
        /\ OffendingCases = {}
        /\ Listing(select) = DeclaredNames
        /\ select.name = decl.ident

\* C7 as stated: every declaration violating an invariant (a case with
\* fields, zero cases, an explicit tag, no repr(usize)) is rejected with
\* the error kind of a violation it has; a model is returned only for a
\* valid declaration, with the declared names in order.
C7_AsStated ==
    select.done =>
        /\ Violations # {} =>
              (~select.ok /\ Len(select.errors) >= 1 /\ select.errors[1].msg \in Violations)
        /\ AcceptedOnlyIfValid

\* C7, amended: as stated, except that a declaration with a repr whose
\* arguments are no identifier list, standing before every repr naming
\* usize, is rejected with the attribute parser's error instead.
C7_RejectsWithMatchingKind ==
    select.done =>
        /\ Violations # {} => (~select.ok /\ Len(select.errors) = 1)
        /\ (Violations # {} /\ ~UnparsedReprFirst) => select.errors[1].msg \in Violations
        /\ UnparsedReprFirst => (~select.ok /\ select.errors[1].msg = ParseError)
        /\ AcceptedOnlyIfValid

\* a repr(usize) enum whose second case has a tuple payload was rejected
\* with CaseHasFields
C7_Witness ==
    /\ select.done
    /\ Violations = {CaseHasFields}
    /\ ~UnparsedReprFirst
    /\ Len(decl.variants) = 3
    /\ decl.variants[2].fields = "Unnamed"
    /\ select.errors = <<Error(CaseHasFields, "fields", 2)>>

\* the declaration passes the representation, shape and non-empty checks
PassesDeclarationChecks ==
    ~UnparsedReprFirst /\ HasReprUsize /\ IsEnum /\ decl.variants # <<>>

\* C8 as stated: with k >= 2 offending cases the result reports all k
\* violations.
C8_AsStated ==
    (select.done /\ PassesDeclarationChecks /\ Cardinality(OffendingCases) >= 2) =>
        Len(select.errors) = Cardinality(OffendingCases)

\* C8, amended: the per-case check stops at the first offending case in
\* declaration order; the result reports that one violation only:
\* CaseHasFields at its fields if it has fields, else ExplicitDiscriminant
\* at its tag.
C8_FirstOffendingCaseOnly ==
    (select.done /\ PassesDeclarationChecks /\ OffendingCases # {}) =>
        /\ ~select.ok
        /\ select.errors =
              <<IF HasFields(FirstOffendingCase)
                THEN Error(CaseHasFields, "fields", FirstOffendingCase)
                ELSE Error(ExplicitDiscriminant, "discriminant", FirstOffendingCase)>>

\* three offending cases, the first with a tag only, the others with
\* fields: one error, for the first
C8_Witness ==
    /\ select.done
    /\ PassesDeclarationChecks
    /\ Cardinality(OffendingCases) = 3
    /\ HasTag(1) /\ ~HasFields(1) /\ HasFields(2) /\ HasFields(3) /\ HasTag(3)
    /\ select.errors = <<Error(ExplicitDiscriminant, "discriminant", 1)>>

\* the checks run in the order representation, shape, non-empty, per-case
LaterChecksOnlyAfterEarlier ==
    (select.done /\ ~select.ok) =>
        /\ select.errors[1].msg = NotAnEnumeration => (HasReprUsize /\ ~IsEnum)
        /\ select.errors[1].msg = EmptyEnumeration =>
              (HasReprUsize /\ IsEnum /\ decl.variants = <<>>)
        /\ select.errors[1].msg \in {CaseHasFields, ExplicitDiscriminant} =>
              (HasReprUsize /\ IsEnum /\ decl.variants # <<>>)

\* C9 as stated: a declaration without a repr naming usize is rejected
\* with MissingIndexRepresentation at the declaration site and no other
\* error, whatever else is wrong with it; the later checks report only
\* when the earlier ones passed.
C9_AsStated ==
    /\ (select.done /\ ~HasReprUsize) =>
          select.errors = <<Error(MissingIndexRepresentation, "call_site", 0)>>
    /\ LaterChecksOnlyAfterEarlier

\* C9, amended: as stated for declarations whose repr attributes all have
\* identifier-list arguments; a declaration without a repr naming usize
\* that has a repr with other arguments is rejected with the attribute
\* parser's error at the first such attribute, and no other error.
C9_ReprCheckFirst ==
    /\ (select.done /\ ~HasReprUsize /\ ~UnparsedReprFirst) =>
          select.errors = <<Error(MissingIndexRepresentation, "call_site", 0)>>
    /\ (select.done /\ ~HasReprUsize /\ UnparsedReprFirst) =>
          select.errors = <<Error(ParseError, "attr", FirstUnparsedRepr)>>
    /\ (select.done /\ ~select.ok /\ select.errors[1].msg = MissingIndexRepresentation) =>
          ~HasReprUsize
    /\ LaterChecksOnlyAfterEarlier

\* an enum under #[derive(Debug)] and #[repr(u8)] with an offending case:
\* MissingIndexRepresentation alone
C9_Witness ==
    /\ select.done
    /\ decl.attrs = <<DeriveDebug, ReprU8>>
    /\ IsEnum
    /\ OffendingCases # {}
    /\ select.errors = <<Error(MissingIndexRepresentation, "call_site", 0)>>

\* the display attributes of the i-th declared case
DisplayAttrs(i) ==
    {k \in DOMAIN decl.variants[i].attrs : decl.variants[i].attrs[k].path = "display"}
\* every case carries one template
OneTemplateEach ==
    \A i \in DOMAIN decl.variants :
        /\ Cardinality(DisplayAttrs(i)) = 1
        /\ \A k \in DisplayAttrs(i) : decl.variants[i].attrs[k].parses
\* the i-th declared template
Template(i) == decl.variants[i].attrs[CHOOSE k \in DisplayAttrs(i) : TRUE].lit

\* C10: for an enum deriving Display and EnumSelect where every case
\* carries one template, rendering the i-th element of the ordered case
\* listing produces the i-th declared template, for every i below COUNT:
\* the dispatch has one arm per case, in order, each with its own template.
C10_RendersOwnTemplate ==
    /\ (display.done /\ IsEnum /\ OneTemplateEach) => display.ok
    /\ (select.ok /\ display.ok /\ OneTemplateEach) =>
          /\ Len(display.arms) = Len(Listing(select))
          /\ \A i \in DOMAIN Listing(select) :
                /\ display.arms[i].name = Listing(select)[i]
                /\ fmt(display.arms, Listing(select)[i]) = Template(i)
          /\ op = "to_string" => retSelf = Template(argIdx + 1)

\* the third of three cases, whose template differs from the first's, was
\* rendered
C10_Witness ==
    /\ HasImpl
    /\ display.ok
    /\ OneTemplateEach
    /\ op = "to_string"
    /\ Len(decl.variants) = 3
    /\ argIdx = 2
    /\ Template(1) = "1 minute"
    /\ retSelf = "5 minutes"

\* the first display attribute of the i-th declared case
FirstDisplayAttr(i) ==
    decl.variants[i].attrs[CHOOSE k \in DisplayAttrs(i) : \A m \in DisplayAttrs(i) : k <= m]
\* the cases without a display attribute
CasesWithoutTemplate == {i \in DOMAIN decl.variants : DisplayAttrs(i) = {}}
\* the cases the Display derive stops at: no display attribute, or a first
\* display attribute without arguments that parse
CasesWithoutUsableTemplate ==
    {i \in DOMAIN decl.variants : DisplayAttrs(i) = {} \/ ~FirstDisplayAttr(i).parses}
\* the generated dispatch has one arm per declared case, in order
ArmsMatchCases ==
    /\ Len(display.arms) = Len(decl.variants)
    /\ \A i \in DOMAIN decl.variants : display.arms[i].name = decl.variants[i].ident

\* C11 as stated: an enum with a case that has no display template is
\* rejected with MissingDisplayTemplate at such a case, and an accepted enum
\* has exactly one display template on each case (neither zero nor more
\* than one), its dispatch being one-to-one with the case list.
C11_AsStated ==
    (display.done /\ IsEnum) =>
        /\ CasesWithoutTemplate # {} =>
              /\ ~display.ok
              /\ \E i \in CasesWithoutTemplate :
                    display.errors = <<Error(MissingDisplayTemplate, "variant", i)>>
        /\ display.ok =>
              /\ \A i \in DOMAIN decl.variants : Cardinality(DisplayAttrs(i)) = 1
              /\ ArmsMatchCases

\* C11: the Display derive of an enum stops at the first case, in
\* declaration order, without a usable template: with
\* MissingDisplayTemplate at that case when it has no display attribute,
\* with the attribute parser's error when its first display attribute has
\* no arguments that parse. It accepts the enum exactly when every case has
\* at least one display attribute and the first one of each case parses;
\* further display attributes of a case are passed over, so that the
\* dispatch is one-to-one with the case list and each arm holds its case's
\* first template.
C11_TemplateRequired ==
    (display.done /\ IsEnum) =>
        /\ display.ok <=> CasesWithoutUsableTemplate = {}
        /\ CasesWithoutUsableTemplate # {} =>
              LET i == CHOOSE j \in CasesWithoutUsableTemplate :
                           \A m \in CasesWithoutUsableTemplate : j <= m
              IN  display.errors =
                    <<IF DisplayAttrs(i) = {}
                      THEN Error(MissingDisplayTemplate, "variant", i)
                      ELSE Error(ParseError, "attr", i)>>
        /\ display.ok =>
              /\ \A i \in DOMAIN decl.variants : Cardinality(DisplayAttrs(i)) >= 1
              /\ ArmsMatchCases
              /\ \A i \in DOMAIN decl.variants :
                    display.arms[i].inner.lit = FirstDisplayAttr(i).lit

\* an enum of three cases whose first case has two templates and whose
\* second has none was rejected at the second case
C11_Witness ==
    /\ display.done
    /\ IsEnum
    /\ Len(decl.variants) = 3
    /\ Cardinality(DisplayAttrs(1)) = 2
    /\ DisplayAttrs(2) = {}
    /\ display.errors = <<Error(MissingDisplayTemplate, "variant", 2)>>

\* the operations that move from one case to another
Navigation ==
    {"wrapping_next", "wrapping_prev", "checked_next", "checked_prev",
     "saturating_next", "saturating_prev"}

\* C12: for an enum with a generated impl (COUNT >= 1, the single-case
\* enum included) first() returns the case at position 0 and last() the
\* case at position COUNT - 1; after any sequence of try_from_index,
\* first, last and the six navigation methods the value held is a declared
\* case with index in 0..COUNT-1, every index passed to
\* from_index_unchecked is below COUNT, every index the methods compute
\* and pass to try_from_index is in 0..COUNT-1 (none below zero), no expect
\* has failed, and the subtractions of wrapping_prev, checked_prev and
\* last stay at or above zero.
C12_NavigationClosed ==
    HasImpl =>
        /\ COUNT >= 1
        /\ ~panicked
        /\ ~ub
        /\ cur # "" => (cur \in Idents /\ to_index(cur) \in 0..(COUNT - 1))
        /\ calls \subseteq 0..(COUNT - 1)
        /\ \A i \in tried : i >= 0
        /\ op \in Navigation \cup {"first", "last"} =>
              /\ tried \subseteq 0..(COUNT - 1)
              /\ calls = tried
              /\ cur \in Idents
        /\ op = "first" => (retSelf = CaseAt(0) /\ tried = {0})
        /\ op = "last" => (retSelf = CaseAt(COUNT - 1) /\ tried = {COUNT - 1})
        /\ op = "wrapping_prev" =>
              /\ to_index(arg) + COUNT - 1 >= 0
              /\ tried = {(to_index(arg) + COUNT - 1) % COUNT}
        /\ op = "checked_prev" =>
              IF retOpt = None THEN to_index(arg) = 0 /\ tried = {}
              ELSE to_index(arg) - 1 >= 0 /\ tried = {to_index(arg) - 1}
        /\ op = "saturating_prev" =>
              tried = {IF to_index(arg) = 0 THEN 0 ELSE to_index(arg) - 1}

\* on a single-case enum saturating_prev was called on the only case:
\* checked_prev subtracted nothing and first() returned the case itself
C12_Witness ==
    /\ HasImpl
    /\ Len(decl.variants) = 1
    /\ COUNT = 1
    /\ op = "saturating_prev"
    /\ arg = CaseAt(0)
    /\ retSelf = arg
    /\ cur = arg
    /\ tried = {0}
    /\ ~panicked

====
